---- MODULE Spec2Model ----
(***************************************************************************)
(* Model of src/app/main.py: the Outlook action pipeline.  One run of      *)
(* main authenticates once, then either processes the action list of the   *)
(* input file (read / move / state / unknown) or, with no input file,      *)
(* performs the legacy single read from the configuration.                 *)
(*                                                                         *)
(* Python dicts are functions with a partial domain: a key that is absent  *)
(* is not in DOMAIN.  The value of dict.get(k) is an option: None is <<>>  *)
(* and a present value v is <<v>>.                                         *)
(***************************************************************************)
EXTENDS Integers, Sequences, FiniteSets, TLC

\* ---------------------------------------------------------------- bounds
\* longest action list of the input file
MaxActions == 2
\* most read actions in one action list
MaxReads == 1
\* most messages a folder holds
MaxMsgs == 2
\* most empty pages the provider serves within one read
MaxEmptyPages == 1
\* most requests kept in the request log when continuation links may lead anywhere
MaxLinkLog == 3

\* ------------------------------------------------------- program constants
DefaultTop == 100
StatusOK == 200
StatusCreated == 201

\* ------------------------------------------------------------ python values
None == <<>>
EmptyDict == <<>>
Get(d, k) == IF k \in DOMAIN d THEN <<d[k]>> ELSE None
GetD(d, k, default) == IF k \in DOMAIN d THEN d[k] ELSE default
\* truth value of an optional string / an optional integer
TruthyStr(o) == o # None /\ o[1] # ""
TruthyNum(o) == o # None /\ o[1] # 0
\* how an f-string or a JSON body renders an optional string
Str(o) == IF o = None THEN "None" ELSE o[1]
\* str.lower on the folder names of the model
Lower(s) == IF s \in {"Inbox", "INBOX", "inbox"} THEN "inbox" ELSE s
Min(a, b) == IF a <= b THEN a ELSE b
\* the slice left out: the accumulated messages are returned whole
Prefix_NoTruncation(s, n) == s

\* python slice s[:n] for n >= 0
Prefix(s, n) == SubSeq(s, 1, Min(n, Len(s)))

\* ------------------------------------------------------------- input domains
Opt(k, V) == {EmptyDict} \cup {k :> v : v \in V}
ReadFolders == {"", "Inbox", "archive"}
MoveFolders == {"archive"}
Tops == {0, 1}
Filters == {"f"}
Mails == {"", "m1"}
Tokens == {"tok"}
Statuses == {StatusOK, StatusCreated, 404}

ReadActions ==
  {("action" :> "read") @@ f @@ t @@ q :
     f \in Opt("folder", ReadFolders), t \in Opt("top", Tops), q \in Opt("filter", Filters)}
MoveActions ==
  {("action" :> "move") @@ m @@ f : m \in Opt("mail", Mails), f \in Opt("folder", MoveFolders)}
StateActions ==
  {("action" :> "state") @@ m @@ fl @@ r :
     m \in Opt("mail", Mails), fl \in Opt("flagged", BOOLEAN), r \in Opt("isRead", BOOLEAN)}
UnknownActions == {EmptyDict, [action |-> "archive"]}

\* optional configuration fields of the legacy mode
Configs ==
  {f @@ t @@ q :
     f \in Opt("folder", ReadFolders), t \in Opt("top", Tops),
     q \in Opt("filter", Filters \cup {""})}

\* --------------------------------------------------------------- the provider
\* The n-th newest message of a folder, as the provider returns it.
RawMsg(n) ==
  IF n % 2 = 1
  THEN [id |-> n, subject |-> "s",
        from |-> [emailAddress |-> [name |-> "a", address |-> "a@x"]],
        toRecipients |-> <<[emailAddress |-> [address |-> "b@x"]], EmptyDict>>,
        isRead |-> TRUE, body |-> [contentType |-> "text"]]
  ELSE [id |-> n, from |-> EmptyDict, hasAttachments |-> TRUE]
\* The page the provider serves after pos messages: the next k of the avail
\* messages, newest first, with a continuation link while messages remain.
PageData(pos, k, n_avail) ==
  LET value == [j \in 1..k |-> RawMsg(pos + j)]
  IN  IF pos + k < n_avail
      THEN [value |-> value, nextLink |-> [kind |-> "next", name |-> "", skip |-> pos + k]]
      ELSE [value |-> value]

\* ------------------------------------------------------------ pure functions
\* JSON null as a value of a raw record
Null == [null |-> TRUE]
IsNull(v) == DOMAIN v = {"null"}

\* the default left out: d.get(k) is None when k is absent
Sub_NoDefault(d, k) == IF k \in DOMAIN d THEN d[k] ELSE Null

\* d.get(k, {})
Sub(d, k) == IF k \in DOMAIN d THEN d[k] ELSE EmptyDict

Recipient(recipient) ==
  [name    |-> Get(Sub(recipient, "emailAddress"), "name"),
   address |-> Get(Sub(recipient, "emailAddress"), "address")]

ParseEmail(message) ==
  [id |-> Get(message, "id"),
   subject |-> Get(message, "subject"),
   from |-> [name    |-> Get(Sub(Sub(message, "from"), "emailAddress"), "name"),
             address |-> Get(Sub(Sub(message, "from"), "emailAddress"), "address")],
   to |-> LET rs == GetD(message, "toRecipients", <<>>)
          IN  [j \in 1..Len(rs) |-> Recipient(rs[j])],
   cc |-> LET rs == GetD(message, "ccRecipients", <<>>)
          IN  [j \in 1..Len(rs) |-> Recipient(rs[j])],
   receivedDateTime |-> Get(message, "receivedDateTime"),
   sentDateTime |-> Get(message, "sentDateTime"),
   hasAttachments |-> GetD(message, "hasAttachments", FALSE),
   importance |-> Get(message, "importance"),
   isRead |-> GetD(message, "isRead", FALSE),
   isDraft |-> GetD(message, "isDraft", FALSE),
   bodyPreview |-> Get(message, "bodyPreview"),
   body |-> [contentType |-> Get(Sub(message, "body"), "contentType"),
             content     |-> Get(Sub(message, "body"), "content")],
   conversationId |-> Get(message, "conversationId"),
   internetMessageId |-> Get(message, "internetMessageId"),
   webLink |-> Get(message, "webLink")]

ParseAll(msgs) == [j \in 1..Len(msgs) |-> ParseEmail(msgs[j])]

\* parse_email raises: a .get is applied to None (AttributeError), that is to
\* the value of 'from', 'body', a recipient or an 'emailAddress' that is null
RecipientRaises(recipient) ==
  IsNull(recipient) \/ IsNull(Sub(recipient, "emailAddress"))
ParseRaises(message) ==
  \/ IsNull(Sub(message, "from"))
  \/ IsNull(Sub(Sub(message, "from"), "emailAddress"))
  \/ IsNull(Sub(message, "body"))
  \/ \E key \in {"toRecipients", "ccRecipients"} :
       LET rs == GetD(message, key, <<>>)
       IN  \E j \in 1..Len(rs) : RecipientRaises(rs[j])

\* the outcome of parse_email(message)
ParseResult(message) ==
  IF ParseRaises(message) THEN [kind |-> "raised"]
  ELSE [kind |-> "ok", value |-> ParseEmail(message)]

\* the raw records handed to parse_email on its own: every field absent or
\* present, the nested ones absent, empty, partly filled or null
RawAddresses ==
  {EmptyDict, [name |-> "a"], [address |-> "a@x"], [name |-> "a", address |-> "a@x"]}
RawHolders == {EmptyDict, Null} \cup {[emailAddress |-> e] : e \in RawAddresses \cup {Null}}
RawLists == {<<>>, <<EmptyDict>>, <<[emailAddress |-> [address |-> "b@x"]], EmptyDict>>,
             <<[emailAddress |-> Null]>>}
RawBodies == {EmptyDict, Null, [contentType |-> "text"], [contentType |-> "text", content |-> "c"]}
ScalarKeys == {"id", "subject", "receivedDateTime", "sentDateTime", "importance",
               "bodyPreview", "conversationId", "internetMessageId", "webLink"}
BoolKeys == {"hasAttachments", "isRead", "isDraft"}
ListKeys == {"toRecipients", "ccRecipients"}
RawRecords ==
  {sc @@ bo @@ fr @@ to @@ cc @@ bd :
     sc \in {[k \in S |-> "v"] : S \in {{}, {"id"}, {"subject", "webLink"}, ScalarKeys}},
     bo \in {[k \in S |-> TRUE] : S \in {{}, {"isRead"}, BoolKeys}},
     fr \in Opt("from", RawHolders),
     to \in Opt("toRecipients", RawLists),
     cc \in Opt("ccRecipients", {<<>>, <<[emailAddress |-> [name |-> "c"]]>>}),
     bd \in Opt("body", RawBodies)}

\* the folder compared with 'inbox' as it is written
BaseUrl_CaseSensitive(folder) ==
  IF TruthyStr(folder) /\ folder[1] # "inbox"
  THEN [kind |-> "mailFolders", name |-> folder[1], skip |-> 0]
  ELSE [kind |-> "messages", name |-> "", skip |-> 0]

\* fetch_emails: the URL of the first page
BaseUrl(folder) ==
  IF TruthyStr(folder) /\ Lower(folder[1]) # "inbox"
  THEN [kind |-> "mailFolders", name |-> folder[1], skip |-> 0]
  ELSE [kind |-> "messages", name |-> "", skip |-> 0]

\* fetch_emails: the query parameters of the first page
FetchParams(top, filter_query) ==
  IF TruthyStr(filter_query)
  THEN [top |-> top, orderby |-> "receivedDateTime DESC", filter |-> filter_query[1]]
  ELSE [top |-> top, orderby |-> "receivedDateTime DESC"]

\* isRead always put in the body, false when it was not given
StateBody_AlwaysIsRead(flagged, is_read) ==
  (IF flagged # None
   THEN "flag" :> [flagStatus |-> IF flagged[1] THEN "flagged" ELSE "notFlagged"]
   ELSE EmptyDict)
  @@ ("isRead" :> (is_read # None /\ is_read[1]))

\* update_email_state: the body of the PATCH request
StateBody(flagged, is_read) ==
  (IF flagged # None
   THEN "flag" :> [flagStatus |-> IF flagged[1] THEN "flagged" ELSE "notFlagged"]
   ELSE EmptyDict)
  @@ (IF is_read # None THEN "isRead" :> is_read[1] ELSE EmptyDict)

\* move_email: the result for a response status, or for a transport exception
MoveResult(message_id, target_folder, resp) ==
  IF resp.kind = "exception"
  THEN [kind |-> "record", success |-> FALSE,
        message |-> "Error moving email " \o message_id \o ": exception"]
  ELSE IF resp.status \in {StatusOK, StatusCreated}
  THEN [kind |-> "record", success |-> TRUE,
        message |-> "Email " \o message_id \o " moved to " \o target_folder]
  ELSE [kind |-> "record", success |-> FALSE,
        message |-> "Failed to move email " \o message_id \o ": Status " \o ToString(resp.status)]

\* status 201 taken for a success as well
UpdateResult_CreatedToo(message_id, resp) ==
  IF resp.kind = "exception"
  THEN [kind |-> "record", success |-> FALSE,
        message |-> "Error updating email " \o message_id \o ": exception"]
  ELSE IF resp.status \in {StatusOK, StatusCreated}
  THEN [kind |-> "record", success |-> TRUE,
        message |-> "Email " \o message_id \o " state updated"]
  ELSE [kind |-> "record", success |-> FALSE,
        message |-> "Failed to update email " \o message_id \o ": Status " \o ToString(resp.status)]

\* update_email_state: the result for a response status, or an exception
UpdateResult(message_id, resp) ==
  IF resp.kind = "exception"
  THEN [kind |-> "record", success |-> FALSE,
        message |-> "Error updating email " \o message_id \o ": exception"]
  ELSE IF resp.status = StatusOK
  THEN [kind |-> "record", success |-> TRUE,
        message |-> "Email " \o message_id \o " state updated"]
  ELSE [kind |-> "record", success |-> FALSE,
        message |-> "Failed to update email " \o message_id \o ": Status " \o ToString(resp.status)]

\* a read's messages put in front of the results accumulated so far
Accumulate_Prepend(results, res) ==
  IF res.kind = "list" THEN res.items \o results
  ELSE Append(results, [success |-> res.success, message |-> res.message])

\* main: how one ActionResult is merged into all_results
Accumulate(results, res) ==
  IF res.kind = "list" THEN results \o res.items
  ELSE Append(results, [success |-> res.success, message |-> res.message])

\* the responses the provider can give to a mutation request
MutationResponses ==
  {[kind |-> "status", status |-> s] : s \in Statuses} \cup {[kind |-> "exception", status |-> 0]}

\* the responses the provider can give to the page request made after pos
\* messages of a folder holding n_avail messages, having served n_empty
\* empty pages so far
PageResponses(pos, n_avail, n_empty) ==
  {[kind |-> "exception", status |-> 0]}
  \cup {[kind |-> "status", status |-> s] : s \in Statuses \ {StatusOK}}
  \cup {[kind |-> "status", status |-> StatusOK, data |-> PageData(pos, k, n_avail)] :
          k \in {j \in 0..(n_avail - pos) : j > 0 \/ pos = n_avail \/ n_empty < MaxEmptyPages}}

\* the responses of a provider whose continuation link may also be the URL
\* of the first page: the page requested by url, which starts after url.skip
\* messages, for a read that has accumulated n_have messages
AnyLinkResponses(url, base_url, n_have, n_avail) ==
  {[kind |-> "exception", status |-> 0]}
  \cup {[kind |-> "status", status |-> s] : s \in Statuses \ {StatusOK}}
  \cup UNION {
       {[kind |-> "status", status |-> StatusOK, data |-> PageData(url.skip, k, n_avail)],
        [kind |-> "status", status |-> StatusOK,
         data |-> [value |-> PageData(url.skip, k, n_avail).value, nextLink |-> base_url]]} :
       k \in {j \in 0..MaxMsgs : j = 0 \/ (url.skip + j <= n_avail /\ n_have + j <= MaxMsgs)}}

\* ------------------------------------------------------------------- state
VARIABLES
  pc,            \* "auth", "loop", "legacy", "fetch", "done", "exited"
  has_input,     \* step.input.path is set
  cfg,           \* the optional configuration fields folder / top / filter
  n_actions,     \* len(actions)
  access_token,  \* None until acquired
  i,             \* 1-based position of the action being dispatched
  actions,       \* the records of the input file dispatched so far
  returned,      \* what process_action returned for each of them
  all_results,
  fetch,         \* the locals of the running fetch_emails call
  mailbox,       \* the provider's side of the current read
  output,        \* None until writeJsons, then <<records>>
  exit_status,   \* None while running
  token_result,  \* what the token provider answered, one entry per attempt
  requests,      \* every request sent to the mail provider, in order
  responses,     \* the provider's answer to each of them
  replay,        \* None, or the first run of a pair of runs
  norm,          \* None, or a raw record handed to parse_email and what came of it
  provider       \* "paging": continuation links lead on; "anylink": any link comes

vars == <<pc, has_input, cfg, n_actions, access_token, i, actions, returned, all_results,
          fetch, mailbox, output, exit_status, token_result, requests, responses, replay, norm, provider>>

Idle == [active |-> FALSE]
NoMailbox == [avail |-> 0, empties |-> 0]

\* The program reads the whole input file before the loop but looks at a
\* record only in its own iteration: the model draws the i-th record when
\* the loop reaches it, and fixes the length of the list at the start.
Init ==
  /\ pc = "auth"
  /\ \/ has_input = TRUE /\ n_actions \in 0..MaxActions /\ cfg = EmptyDict
     \/ has_input = FALSE /\ n_actions = 0 /\ cfg \in Configs
  /\ access_token = None
  /\ i = 1
  /\ actions = <<>>
  /\ returned = <<>>
  /\ all_results = <<>>
  /\ fetch = Idle
  /\ mailbox = NoMailbox
  /\ output = None
  /\ exit_status = None
  /\ token_result = None
  /\ requests = <<>>
  /\ responses = <<>>
  /\ replay = None
  /\ norm = None
  /\ provider = "paging"

\* sys.exit(1)
Exit1 ==
  /\ pc' = "exited"
  /\ exit_status' = <<1>>

\* the read action that carries the values of the legacy configuration
ActionOfConfig(c) == ("action" :> "read") @@ c

\* The request and response logs are observations of the run.  With a
\* paging provider they hold every request; when links may lead anywhere a
\* read may go on for ever and the logs keep the first MaxLinkLog entries.
LogCap ==
  IF provider = "anylink" THEN MaxLinkLog
  ELSE MaxActions + MaxReads * (MaxMsgs + MaxEmptyPages + 1)
Log(log, entry) == IF Len(log) < LogCap THEN Append(log, entry) ELSE log

\* a request of this run: the bearer token is access_token, and act is the
\* position of the action that issues it
Request(method, url, params, body) ==
  [method |-> method, url |-> url, params |-> params, body |-> body,
   token |-> Str(access_token), act |-> i]

\* what acquire_token_for_client can answer
TokenResults ==
  IF replay = None
  THEN {[kind |-> "token", token |-> t] : t \in Tokens}
         \cup {[kind |-> "error", token |-> ""], [kind |-> "exception", token |-> ""]}
  ELSE {[kind |-> "token", token |-> replay[1].token]}

\* main: the branch taken after authentication
AfterAuth == IF has_input THEN "loop" ELSE "legacy"

\* get_access_token without the two sys.exit(1): a failed acquisition falls
\* through and main goes on with the token None
Authenticate_FallThrough ==
  /\ pc = "auth"
  /\ \E r \in TokenResults :
       /\ token_result' = Append(token_result, r.kind)
       /\ access_token' = IF r.kind = "token" THEN <<r.token>> ELSE <<"None">>
       /\ pc' = AfterAuth
       /\ UNCHANGED exit_status
  /\ UNCHANGED <<has_input, cfg, n_actions, i, actions, returned, all_results, fetch, mailbox,
                 output, requests, responses, replay, norm, provider>>

\* get_access_token retrying once after a failed acquisition
Authenticate_Retry ==
  /\ pc = "auth"
  /\ \E r \in TokenResults :
       /\ token_result' = Append(token_result, r.kind)
       /\ IF r.kind = "token"
          THEN /\ access_token' = <<r.token>>
               /\ pc' = AfterAuth
               /\ UNCHANGED exit_status
          ELSE IF Len(token_result) = 0
          THEN UNCHANGED <<pc, exit_status, access_token>>
          ELSE /\ Exit1
               /\ UNCHANGED access_token
  /\ UNCHANGED <<has_input, cfg, n_actions, i, actions, returned, all_results, fetch, mailbox,
                 output, requests, responses, replay, norm, provider>>

\* get_access_token, and main up to the choice between input file and legacy
Authenticate ==
  /\ pc = "auth"
  /\ \E r \in TokenResults :
       /\ token_result' = Append(token_result, r.kind)
       /\ IF r.kind = "token"
          THEN /\ access_token' = <<r.token>>
               /\ pc' = AfterAuth
               /\ UNCHANGED exit_status
          ELSE /\ Exit1
               /\ UNCHANGED access_token
  /\ UNCHANGED <<has_input, cfg, n_actions, i, actions, returned, all_results, fetch, mailbox,
                 output, requests, responses, replay, norm, provider>>

\* fetch_emails up to its first request
StartFetch(folder, top, filter_query) ==
  /\ fetch' = [active |-> TRUE, top |-> top, filter_query |-> filter_query,
               base_url |-> BaseUrl(folder), url |-> BaseUrl(folder), messages |-> <<>>]
  /\ \E m \in (IF replay = None THEN 0..MaxMsgs ELSE {replay[1].avail}) :
       mailbox' = [avail |-> m, empties |-> 0]
  /\ pc' = "fetch"

\* the number of read actions dispatched so far
ReadsSoFar == Cardinality({k \in 1..Len(actions) : GetD(actions[k], "action", "") = "read"})

\* process_action, branch 'read', up to the first page request
BeginRead ==
  /\ pc = "loop"
  /\ i <= n_actions
  /\ ReadsSoFar < MaxReads
  /\ \E a \in (IF replay = None THEN ReadActions ELSE {ActionOfConfig(cfg)}) :
       /\ actions' = Append(actions, a)
       /\ StartFetch(<<GetD(a, "folder", "inbox")>>, GetD(a, "top", DefaultTop), Get(a, "filter"))
  /\ UNCHANGED <<has_input, cfg, n_actions, access_token, i, returned, all_results, output,
                 exit_status, token_result, requests, responses, replay, norm, provider>>

\* main, legacy branch: the values taken from the configuration
LegacyFolder(c) == IF TruthyStr(Get(c, "folder")) THEN Get(c, "folder") ELSE <<"inbox">>
LegacyTop(c) == IF TruthyNum(Get(c, "top")) THEN c.top ELSE DefaultTop
LegacyFilter(c) == IF TruthyStr(Get(c, "filter")) THEN Get(c, "filter") ELSE None

\* main, legacy branch, up to the first page request
LegacyBegin ==
  /\ pc = "legacy"
  /\ StartFetch(LegacyFolder(cfg), LegacyTop(cfg), LegacyFilter(cfg))
  /\ UNCHANGED <<has_input, cfg, n_actions, access_token, i, actions, returned, all_results,
                 output, exit_status, token_result, requests, responses, replay, norm, provider>>

\* the for loop going through the list backwards
Return_Backwards(res) ==
  /\ returned' = Append(returned, res)
  /\ all_results' = Accumulate(all_results, res)
  /\ i' = i - 1

\* the for loop staying on the same action
Return_SameAction(res) ==
  /\ returned' = Append(returned, res)
  /\ all_results' = Accumulate(all_results, res)
  /\ i' = i

\* main: process_action returned res; merge it and go on with the next action
Return(res) ==
  /\ returned' = Append(returned, res)
  /\ all_results' = Accumulate(all_results, res)
  /\ i' = i + 1

\* fetch_emails returns msgs: process_action parses them and main merges
\* them (input file), or main parses and writes them (legacy)
FetchReturn(msgs) ==
  /\ fetch' = Idle
  /\ IF has_input
     THEN /\ Return([kind |-> "list", items |-> ParseAll(msgs)])
          /\ pc' = "loop"
          /\ UNCHANGED <<output, exit_status>>
     ELSE /\ output' = <<ParseAll(msgs)>>
          /\ pc' = "done"
          /\ exit_status' = <<0>>
          /\ UNCHANGED <<returned, all_results, i>>

\* the limit checked with > instead of >=
ReachedTop_Strict(msgs, top) == Len(msgs) > top

\* fetch_emails: 'Respect the top limit'
ReachedTop(msgs, top) == Len(msgs) >= top

\* the status check left out: only an exception is a failure
FetchFailed_StatusIgnored(resp) == resp.kind = "exception"

\* fetch_emails: the request failed (status other than 200, or an exception)
FetchFailed(resp) == resp.kind = "exception" \/ resp.status # StatusOK

\* fetch_emails: one iteration of the while loop, and the return when it ends
FetchPage ==
  /\ pc = "fetch"
  /\ LET req == Request("GET", fetch.url,
                        IF fetch.url = fetch.base_url
                        THEN <<FetchParams(fetch.top, fetch.filter_query)>> ELSE None,
                        None)
         n == Len(requests) + 1
         forced == /\ replay # None
                   /\ n <= Len(replay[1].requests)
                   /\ replay[1].requests[n] = req
     IN  /\ requests' = Log(requests, req)
         /\ \E resp \in (IF forced THEN {replay[1].responses[n]}
                         ELSE IF provider = "anylink"
                         THEN AnyLinkResponses(fetch.url, fetch.base_url, Len(fetch.messages),
                                               mailbox.avail)
                         ELSE PageResponses(Len(fetch.messages), mailbox.avail, mailbox.empties)) :
              /\ responses' = Log(responses, resp)
              /\ IF FetchFailed(resp)
                 THEN /\ Exit1
                      /\ UNCHANGED <<fetch, mailbox, returned, all_results, i, output>>
                 ELSE LET data == GetD(resp, "data", EmptyDict)
                          page == GetD(data, "value", <<>>)
                          msgs == fetch.messages \o page
                          next == Get(data, "nextLink")
                      IN  IF ReachedTop(msgs, fetch.top)
                          THEN FetchReturn(Prefix(msgs, fetch.top)) /\ UNCHANGED mailbox
                          ELSE IF next = None
                          THEN FetchReturn(msgs) /\ UNCHANGED mailbox
                          ELSE /\ fetch' = [fetch EXCEPT !.url = next[1], !.messages = msgs]
                               /\ mailbox' = [mailbox EXCEPT !.empties =
                                                @ + (IF Len(page) = 0 /\ provider = "paging"
                                                     THEN 1 ELSE 0)]
                               /\ UNCHANGED <<pc, returned, all_results, i, output, exit_status>>
  /\ UNCHANGED <<has_input, cfg, n_actions, access_token, actions, token_result, replay, norm, provider>>

Failure(text) == [kind |-> "record", success |-> FALSE, message |-> text]

\* the check of 'folder' left out
MoveValid_MailOnly(message_id, target_folder) == TruthyStr(message_id)

\* process_action, branch 'move': the check of the required fields
MoveValid(message_id, target_folder) == TruthyStr(message_id) /\ TruthyStr(target_folder)

\* move_email without its except clause: a transport exception of the POST
\* propagates out of process_action and main and ends the process
ProcessMove_ExceptionPropagates ==
  /\ pc = "loop"
  /\ i <= n_actions
  /\ \E a \in MoveActions :
       /\ actions' = Append(actions, a)
       /\ LET message_id == Get(a, "mail")
              target_folder == Get(a, "folder")
          IN  IF ~MoveValid(message_id, target_folder)
              THEN /\ Return(Failure("Move action requires both \"mail\" and \"folder\" fields"))
                   /\ UNCHANGED <<pc, exit_status, requests, responses>>
              ELSE \E resp \in MutationResponses :
                     /\ requests' = Append(requests,
                          Request("POST", [kind |-> "move", name |-> Str(message_id), skip |-> 0],
                                  None, <<[destinationId |-> Str(target_folder)]>>))
                     /\ responses' = Append(responses, resp)
                     /\ IF resp.kind = "exception"
                        THEN Exit1 /\ UNCHANGED <<returned, all_results, i>>
                        ELSE /\ Return(MoveResult(Str(message_id), Str(target_folder), resp))
                             /\ UNCHANGED <<pc, exit_status>>
  /\ UNCHANGED <<has_input, cfg, n_actions, access_token, fetch, mailbox, output,
                 token_result, replay, norm, provider>>

\* move_email sending the request a second time when the first one failed
ProcessMove_RetryOnce ==
  /\ pc = "loop"
  /\ i <= n_actions
  /\ \E a \in MoveActions :
       /\ actions' = Append(actions, a)
       /\ LET message_id == Get(a, "mail")
              target_folder == Get(a, "folder")
              req == Request("POST", [kind |-> "move", name |-> Str(message_id), skip |-> 0],
                             None, <<[destinationId |-> Str(target_folder)]>>)
          IN  IF ~MoveValid(message_id, target_folder)
              THEN /\ Return(Failure("Move action requires both \"mail\" and \"folder\" fields"))
                   /\ UNCHANGED <<requests, responses>>
              ELSE \E resp \in MutationResponses :
                     IF MoveResult(Str(message_id), Str(target_folder), resp).success
                     THEN /\ requests' = Append(requests, req)
                          /\ responses' = Append(responses, resp)
                          /\ Return(MoveResult(Str(message_id), Str(target_folder), resp))
                     ELSE \E again \in MutationResponses :
                            /\ requests' = Append(Append(requests, req), req)
                            /\ responses' = Append(Append(responses, resp), again)
                            /\ Return(MoveResult(Str(message_id), Str(target_folder), again))
  /\ UNCHANGED <<pc, has_input, cfg, n_actions, access_token, fetch, mailbox, output,
                 exit_status, token_result, replay, norm, provider>>

\* process_action, branch 'move', with move_email
ProcessMove ==
  /\ pc = "loop"
  /\ i <= n_actions
  /\ \E a \in MoveActions :
       /\ actions' = Append(actions, a)
       /\ LET message_id == Get(a, "mail")
              target_folder == Get(a, "folder")
          IN  IF ~MoveValid(message_id, target_folder)
              THEN /\ Return(Failure("Move action requires both \"mail\" and \"folder\" fields"))
                   /\ UNCHANGED <<requests, responses>>
              ELSE \E resp \in MutationResponses :
                     /\ requests' = Append(requests,
                          Request("POST", [kind |-> "move", name |-> Str(message_id), skip |-> 0],
                                  None, <<[destinationId |-> Str(target_folder)]>>))
                     /\ responses' = Append(responses, resp)
                     /\ Return(MoveResult(Str(message_id), Str(target_folder), resp))
  /\ UNCHANGED <<pc, has_input, cfg, n_actions, access_token, fetch, mailbox, output,
                 exit_status, token_result, replay, norm, provider>>

\* the check of 'mail' left out
StateValid_Always(message_id) == TRUE

\* process_action, branch 'state': 'mail' is there
StateValid(message_id) == TruthyStr(message_id)

\* update_email_state without its except clause: a transport exception of
\* the PATCH propagates out of process_action and main and ends the process
ProcessState_ExceptionPropagates ==
  /\ pc = "loop"
  /\ i <= n_actions
  /\ \E a \in StateActions :
       /\ actions' = Append(actions, a)
       /\ LET message_id == Get(a, "mail")
              flagged == Get(a, "flagged")
              is_read == Get(a, "isRead")
              body == StateBody(flagged, is_read)
          IN  IF ~StateValid(message_id)
              THEN /\ Return(Failure("State action requires \"mail\" field"))
                   /\ UNCHANGED <<pc, exit_status, requests, responses>>
              ELSE IF DOMAIN body = {}
              THEN /\ Return(Failure("No state changes specified for email " \o Str(message_id)))
                   /\ UNCHANGED <<pc, exit_status, requests, responses>>
              ELSE \E resp \in MutationResponses :
                     /\ requests' = Append(requests,
                          Request("PATCH", [kind |-> "message", name |-> Str(message_id), skip |-> 0],
                                  None, <<body>>))
                     /\ responses' = Append(responses, resp)
                     /\ IF resp.kind = "exception"
                        THEN Exit1 /\ UNCHANGED <<returned, all_results, i>>
                        ELSE /\ Return(UpdateResult(Str(message_id), resp))
                             /\ UNCHANGED <<pc, exit_status>>
  /\ UNCHANGED <<has_input, cfg, n_actions, access_token, fetch, mailbox, output,
                 token_result, replay, norm, provider>>

\* process_action, branch 'state', with update_email_state
ProcessState ==
  /\ pc = "loop"
  /\ i <= n_actions
  /\ \E a \in StateActions :
       /\ actions' = Append(actions, a)
       /\ LET message_id == Get(a, "mail")
              flagged == Get(a, "flagged")
              is_read == Get(a, "isRead")
              body == StateBody(flagged, is_read)
          IN  IF ~StateValid(message_id)
              THEN /\ Return(Failure("State action requires \"mail\" field"))
                   /\ UNCHANGED <<requests, responses>>
              ELSE IF DOMAIN body = {}
              THEN /\ Return(Failure("No state changes specified for email " \o Str(message_id)))
                   /\ UNCHANGED <<requests, responses>>
              ELSE \E resp \in MutationResponses :
                     /\ requests' = Append(requests,
                          Request("PATCH", [kind |-> "message", name |-> Str(message_id), skip |-> 0],
                                  None, <<body>>))
                     /\ responses' = Append(responses, resp)
                     /\ Return(UpdateResult(Str(message_id), resp))
  /\ UNCHANGED <<pc, has_input, cfg, n_actions, access_token, fetch, mailbox, output,
                 exit_status, token_result, replay, norm, provider>>

\* process_action, last branch: any other tag
UnknownResult(action_type) == Failure("Unknown action type: " \o Str(action_type))

\* the last branch raising instead of returning a record
ProcessUnknown_Raises ==
  /\ pc = "loop"
  /\ i <= n_actions
  /\ \E a \in UnknownActions : actions' = Append(actions, a)
  /\ Exit1
  /\ UNCHANGED <<has_input, cfg, n_actions, access_token, i, returned, all_results, fetch,
                 mailbox, output, token_result, requests, responses, replay, norm, provider>>

ProcessUnknown ==
  /\ pc = "loop"
  /\ i <= n_actions
  /\ \E a \in UnknownActions :
       /\ actions' = Append(actions, a)
       /\ Return(UnknownResult(Get(a, "action")))
  /\ UNCHANGED <<pc, has_input, cfg, n_actions, access_token, fetch, mailbox, output,
                 exit_status, token_result, requests, responses, replay, norm, provider>>

\* main: the loop is over, step.output.writeJsons(all_results)
WriteOutput ==
  /\ pc = "loop"
  /\ i > n_actions
  /\ output' = <<all_results>>
  /\ pc' = "done"
  /\ exit_status' = <<0>>
  /\ UNCHANGED <<has_input, cfg, n_actions, access_token, i, actions, returned, all_results,
                 fetch, mailbox, token_result, requests, responses, replay, norm, provider>>

Next ==
  \/ Authenticate
  \/ BeginRead
  \/ LegacyBegin
  \/ FetchPage
  \/ ProcessMove
  \/ ProcessState
  \/ ProcessUnknown
  \/ WriteOutput

Spec == Init /\ [][Next]_vars

\* ------------------------------------------- one read, links that lead anywhere
InitLinks ==
  /\ pc = "auth"
  /\ \/ has_input = TRUE /\ n_actions = 1 /\ cfg = EmptyDict
     \/ has_input = FALSE /\ n_actions = 0 /\ cfg \in Configs
  /\ access_token = None
  /\ i = 1
  /\ actions = <<>>
  /\ returned = <<>>
  /\ all_results = <<>>
  /\ fetch = Idle
  /\ mailbox = NoMailbox
  /\ output = None
  /\ exit_status = None
  /\ token_result = None
  /\ requests = <<>>
  /\ responses = <<>>
  /\ replay = None
  /\ norm = None
  /\ provider = "anylink"

SpecLinks == InitLinks /\ [][Next]_vars

\* The runs of both providers.  The program is one thread and every request
\* returns, so a run that can take a step takes it.
InitProviders == Init \/ InitLinks
SpecProviders == InitProviders /\ [][Next]_vars /\ WF_vars(Next)

\* ------------------------------------------------------- parse_email on its own
InitParse ==
  /\ pc = "parse"
  /\ has_input = FALSE /\ n_actions = 0 /\ cfg = EmptyDict
  /\ access_token = None
  /\ i = 1
  /\ actions = <<>>
  /\ returned = <<>>
  /\ all_results = <<>>
  /\ fetch = Idle
  /\ mailbox = NoMailbox
  /\ output = None
  /\ exit_status = None
  /\ token_result = None
  /\ requests = <<>>
  /\ responses = <<>>
  /\ replay = None
  /\ norm \in {<<[raw |-> r]>> : r \in RawRecords}
  /\ provider = "paging"

\* parse_email(norm.raw)
Normalize ==
  /\ pc = "parse"
  /\ norm # None
  /\ "result" \notin DOMAIN norm[1]
  /\ norm' = <<[raw |-> norm[1].raw, result |-> ParseResult(norm[1].raw)]>>
  /\ UNCHANGED <<pc, has_input, cfg, n_actions, access_token, i, actions, returned,
                 all_results, fetch, mailbox, output, exit_status, token_result, requests,
                 responses, replay, provider>>

NextParse == Normalize

SpecParse == InitParse /\ [][NextParse]_vars

\* ---------------------------------------------- a legacy run and its batch twin
\* main is run a second time on the same configuration, the same mailbox and
\* the same token, now with an input file that holds the one read action
\* ActionOfConfig(cfg); the provider answers a request it has seen in the
\* first run as it did then.
Rerun ==
  /\ replay = None
  /\ ~has_input
  /\ pc \in {"done", "exited"}
  /\ token_result = <<"token">>
  /\ replay' = <<[output |-> output, exit_status |-> exit_status, requests |-> requests,
                  responses |-> responses, token |-> access_token[1], avail |-> mailbox.avail]>>
  /\ has_input' = TRUE
  /\ n_actions' = 1
  /\ pc' = "auth"
  /\ access_token' = None
  /\ i' = 1
  /\ actions' = <<>>
  /\ returned' = <<>>
  /\ all_results' = <<>>
  /\ fetch' = Idle
  /\ mailbox' = NoMailbox
  /\ output' = None
  /\ exit_status' = None
  /\ token_result' = None
  /\ requests' = <<>>
  /\ responses' = <<>>
  /\ UNCHANGED <<cfg, norm, provider>>

InitLegacy == Init /\ has_input = FALSE

NextPair ==
  \/ Authenticate
  \/ LegacyBegin
  \/ BeginRead
  \/ FetchPage
  \/ WriteOutput
  \/ Rerun

SpecPair == InitLegacy /\ [][NextPair]_vars

\* ------------------------------------------------------------------ claims
IsRead(a) == GetD(a, "action", "") = "read"
IsMove(a) == GetD(a, "action", "") = "move"
IsState(a) == GetD(a, "action", "") = "state"
IsUnknown(a) == GetD(a, "action", "") \notin {"read", "move", "state"}

\* the positions in the request log of the requests issued by action k
RequestsOf(k) == {n \in 1..Len(requests) : requests[n].act = k}
\* the position of the latest read action dispatched
LastRead == CHOOSE k \in 0..Len(actions) :
              /\ k > 0 => IsRead(actions[k])
              /\ \A j \in (k + 1)..Len(actions) : ~IsRead(actions[j])
\* the first n messages of the provider's newest-first sequence, normalized
Newest(n) == [j \in 1..n |-> ParseEmail(RawMsg(j))]

\* C1: a read action with top N on a folder of M messages returns exactly the
\* first min(N, M) messages of the newest-first sequence, in order, however
\* the provider split them into pages.
C1_ReadReturnsMinTopAvail ==
  \A k \in 1..Len(returned) :
    (IsRead(actions[k]) /\ k = LastRead) =>
       /\ returned[k].kind = "list"
       /\ Len(returned[k].items) = Min(GetD(actions[k], "top", DefaultTop), mailbox.avail)
       /\ returned[k].items = Newest(Min(GetD(actions[k], "top", DefaultTop), mailbox.avail))

\* a read with top 1 on a folder of 2 messages that took two pages
C1_Witness ==
  \E k \in 1..Len(returned) :
    /\ IsRead(actions[k]) /\ k = LastRead
    /\ GetD(actions[k], "top", DefaultTop) = 1
    /\ mailbox.avail = 2
    /\ Cardinality(RequestsOf(k)) = 2
    /\ Len(returned[k].items) = 1

\* what the results returned so far contribute to the output, in action order
RECURSIVE Contributions(_)
Contributions(rs) ==
  IF Len(rs) = 0 THEN <<>>
  ELSE LET last == rs[Len(rs)]
       IN  Contributions(SubSeq(rs, 1, Len(rs) - 1)) \o
             (IF last.kind = "list" THEN last.items
              ELSE <<[success |-> last.success, message |-> last.message]>>)

\* C2: the output is the concatenation, in action order, of each action's
\* contribution: a read contributes its messages one by one, every other
\* action exactly one {success, message} record.
C2_OutputIsConcatenation ==
  has_input =>
    /\ all_results = Contributions(returned)
    /\ \A k \in 1..Len(returned) : (returned[k].kind = "list") <=> IsRead(actions[k])
    /\ pc = "done" => /\ Len(returned) = n_actions
                      /\ output = <<Contributions(returned)>>

\* a finished run of a read that returned K >= 1 messages followed by a move
C2_Witness ==
  /\ pc = "done"
  /\ Len(actions) = 2
  /\ IsRead(actions[1]) /\ IsMove(actions[2])
  /\ Len(returned[1].items) >= 1
  /\ Len(output[1]) = Len(returned[1].items) + 1
  /\ output[1][Len(output[1])] = [success |-> returned[2].success, message |-> returned[2].message]

\* C3: when token acquisition fails the process exits with status 1 before any
\* action is dispatched, before any mailbox request, with no output written.
C3_AuthFailureIsFatal ==
  (token_result # None /\ token_result[1] # "token") =>
    /\ pc = "exited"
    /\ exit_status = <<1>>
    /\ actions = <<>>
    /\ requests = <<>>
    /\ output = None

\* a failed acquisition with actions waiting in the input file
C3_Witness ==
  /\ token_result = <<"error">>
  /\ has_input /\ n_actions > 0
  /\ pc = "exited"

\* C4: a page fetch that returns a status other than 200 or fails in transport
\* ends the run with status 1 and no output, also when earlier actions of the
\* batch had completed.
C4_ReadFailureIsFatal ==
  \A n \in 1..Len(responses) :
    (requests[n].method = "GET"
       /\ (responses[n].kind = "exception" \/ responses[n].status # StatusOK)) =>
      /\ n = Len(requests)
      /\ pc = "exited"
      /\ exit_status = <<1>>
      /\ output = None

\* a read that failed with a 404 after an earlier action had put a result in all_results
C4_Witness ==
  /\ pc = "exited"
  /\ Len(all_results) >= 1
  /\ Len(responses) >= 1
  /\ requests[Len(requests)].method = "GET"
  /\ responses[Len(responses)].kind = "status"
  /\ responses[Len(responses)].status = 404
  /\ output = None

\* C5: a move action without 'mail', without 'folder' or without both returns
\* success = false and issues no request.
C5_MoveMissingFields ==
  \A k \in 1..Len(actions) :
    (IsMove(actions[k]) /\ ("mail" \notin DOMAIN actions[k] \/ "folder" \notin DOMAIN actions[k])) =>
      /\ Len(returned) >= k
      /\ returned[k].kind = "record"
      /\ returned[k].success = FALSE
      /\ RequestsOf(k) = {}

\* a move action with 'mail' given and 'folder' missing has been dispatched
C5_Witness ==
  \E k \in 1..Len(returned) :
    /\ IsMove(actions[k])
    /\ "mail" \in DOMAIN actions[k] /\ actions[k].mail = "m1"
    /\ "folder" \notin DOMAIN actions[k]
    /\ returned[k].success = FALSE

\* the body a state action's supplied fields call for
ExpectedBody(a) ==
  (IF "flagged" \in DOMAIN a
   THEN "flag" :> [flagStatus |-> IF a.flagged THEN "flagged" ELSE "notFlagged"]
   ELSE EmptyDict)
  @@ (IF "isRead" \in DOMAIN a THEN "isRead" :> a.isRead ELSE EmptyDict)

\* action k issued exactly one request, a PATCH whose body is body
OnePatch(k, body) ==
  /\ Cardinality(RequestsOf(k)) = 1
  /\ \A n \in RequestsOf(k) :
       /\ requests[n].method = "PATCH"
       /\ DOMAIN requests[n].body[1] = DOMAIN body
       /\ requests[n].body[1] = body

\* C6 as stated: a state action with neither flagged nor isRead returns
\* success = false and issues no request, and a state action with either of
\* them issues exactly one update request with only the supplied fields.
C6_Original ==
  \A k \in 1..Len(returned) :
    IsState(actions[k]) =>
      IF "flagged" \notin DOMAIN actions[k] /\ "isRead" \notin DOMAIN actions[k]
      THEN returned[k].success = FALSE /\ RequestsOf(k) = {}
      ELSE OnePatch(k, ExpectedBody(actions[k]))

\* C6 amended: a state action with neither flagged nor isRead returns
\* success = false and issues no request; a state action with a non-empty
\* mail and either of them issues exactly one update request whose body holds
\* only the supplied fields (flagged mapped to 'flagged' / 'notFlagged',
\* isRead as given).
C6_StateRequestBody ==
  \A k \in 1..Len(returned) :
    IsState(actions[k]) =>
      IF "flagged" \notin DOMAIN actions[k] /\ "isRead" \notin DOMAIN actions[k]
      THEN returned[k].success = FALSE /\ RequestsOf(k) = {}
      ELSE TruthyStr(Get(actions[k], "mail")) => OnePatch(k, ExpectedBody(actions[k]))

\* a state action with a mail and only flagged = false sent one PATCH with
\* only the flag field, notFlagged
C6_Witness ==
  \E k \in 1..Len(returned) :
    /\ IsState(actions[k])
    /\ actions[k] = [action |-> "state", mail |-> "m1", flagged |-> FALSE]
    /\ \E n \in RequestsOf(k) :
         requests[n].body = <<[flag |-> [flagStatus |-> "notFlagged"]]>>

\* C7: an action with a tag other than read, move, state yields the record
\* {success: false, message: "Unknown action type: <tag>"}, issues no request,
\* and does not end the run: the loop goes on with the next action, a run
\* that exits does so in a later action, and a run that finishes has
\* dispatched every action of the list.
C7_UnknownAction ==
  \A k \in 1..Len(actions) :
    IsUnknown(actions[k]) =>
      /\ Len(returned) >= k
      /\ returned[k] = [kind |-> "record", success |-> FALSE,
                        message |-> "Unknown action type: " \o
                           (IF "action" \in DOMAIN actions[k] THEN actions[k].action ELSE "None")]
      /\ RequestsOf(k) = {}
      /\ (pc = "loop" /\ k = Len(actions)) => i = k + 1
      /\ pc = "exited" => k < Len(actions)
      /\ pc = "done" => Len(actions) = n_actions

\* {"action": "archive"} came first, the action after it was dispatched and
\* the run finished
C7_Witness ==
  /\ pc = "done"
  /\ Len(actions) = 2
  /\ actions[1] = [action |-> "archive"]
  /\ returned[1].message = "Unknown action type: archive"
  /\ Len(returned) = 2
  /\ Len(output[1]) >= 2

\* C8: a move or state-update request that fails (a status outside 200/201, or
\* a transport exception) is returned as a {success: false, message} record
\* and does not end the run: the loop goes on, a run that exits does so in a
\* later read, and a run that finishes has dispatched every action, written
\* the output and exits with status 0.
C8_MutationFailureNotFatal ==
  \A n \in 1..Len(responses) :
    (requests[n].method \in {"POST", "PATCH"}
       /\ (responses[n].kind = "exception" \/ responses[n].status \notin {StatusOK, StatusCreated})) =>
      LET k == requests[n].act
      IN  /\ Len(returned) >= k
          /\ returned[k].kind = "record"
          /\ returned[k].success = FALSE
          /\ (pc = "loop" /\ k = Len(actions)) => i = k + 1
          /\ pc = "exited" => (k < Len(actions) /\ IsRead(actions[Len(actions)]))
          /\ pc = "done" => /\ Len(actions) = n_actions
                            /\ output = <<all_results>>
                            /\ exit_status = <<0>>

\* a move whose POST raised came first, the action after it was dispatched
\* and the run finished with the output written
C8_Witness ==
  /\ pc = "done"
  /\ Len(actions) = 2
  /\ IsMove(actions[1])
  /\ Len(responses) >= 1
  /\ requests[1].method = "POST"
  /\ responses[1].kind = "exception"
  /\ returned[1].success = FALSE
  /\ Len(returned) = 2
  /\ exit_status = <<0>>
  /\ Len(output[1]) >= 2

C10_LegacyEquivalence ==
  (replay # None /\ pc \in {"done", "exited"}) =>
    /\ output = replay[1].output
    /\ requests = replay[1].requests
    /\ exit_status = replay[1].exit_status

\* no null anywhere in a raw record: fields are present or absent
NoNull(message) ==
  /\ ~IsNull(GetD(message, "from", EmptyDict))
  /\ ~IsNull(GetD(GetD(message, "from", EmptyDict), "emailAddress", EmptyDict))
  /\ ~IsNull(GetD(message, "body", EmptyDict))
  /\ \A key \in ListKeys :
       \A j \in 1..Len(GetD(message, key, <<>>)) :
         /\ ~IsNull(GetD(message, key, <<>>)[j])
         /\ ~IsNull(GetD(GetD(message, key, <<>>)[j], "emailAddress", EmptyDict))

\* C11: parse_email is total over records whose fields, top-level or nested,
\* are absent in any combination: it does not raise and returns the full key
\* set, with None for a missing scalar, false for a missing boolean, the empty
\* sequence for a missing recipient list, and a value given kept as given.
C11_ParseEmailTotal ==
  (norm # None /\ "result" \in DOMAIN norm[1] /\ NoNull(norm[1].raw)) =>
    LET raw == norm[1].raw
        res == norm[1].result
    IN  /\ res.kind = "ok"
        /\ DOMAIN res.value = ScalarKeys \cup BoolKeys \cup {"from", "to", "cc", "body"}
        /\ \A k \in ScalarKeys :
             res.value[k] = (IF k \in DOMAIN raw THEN <<raw[k]>> ELSE None)
        /\ \A k \in BoolKeys :
             res.value[k] = (IF k \in DOMAIN raw THEN raw[k] ELSE FALSE)
        /\ DOMAIN res.value.from = {"name", "address"}
        /\ DOMAIN res.value.body = {"contentType", "content"}
        /\ ("from" \notin DOMAIN raw \/ "emailAddress" \notin DOMAIN raw.from) =>
             res.value.from = [name |-> None, address |-> None]
        /\ "body" \notin DOMAIN raw =>
             res.value.body = [contentType |-> None, content |-> None]
        /\ "toRecipients" \notin DOMAIN raw => res.value.to = <<>>
        /\ "ccRecipients" \notin DOMAIN raw => res.value.cc = <<>>
        /\ "toRecipients" \in DOMAIN raw =>
             /\ Len(res.value.to) = Len(raw.toRecipients)
             /\ \A j \in 1..Len(res.value.to) :
                  /\ DOMAIN res.value.to[j] = {"name", "address"}
                  /\ "emailAddress" \notin DOMAIN raw.toRecipients[j] =>
                       res.value.to[j] = [name |-> None, address |-> None]

\* a record without subject, whose 'from' lacks emailAddress and whose
\* recipient list holds an empty recipient, has been normalized
C11_Witness ==
  /\ norm # None
  /\ "result" \in DOMAIN norm[1]
  /\ "subject" \notin DOMAIN norm[1].raw
  /\ "hasAttachments" \notin DOMAIN norm[1].raw
  /\ "from" \in DOMAIN norm[1].raw /\ DOMAIN norm[1].raw.from = {}
  /\ "toRecipients" \in DOMAIN norm[1].raw /\ norm[1].raw.toRecipients = <<EmptyDict>>
  /\ "body" \notin DOMAIN norm[1].raw
  /\ norm[1].result.kind = "ok"
  /\ norm[1].result.value.subject = None

\* C12: a run makes exactly one token-acquisition attempt, before any mailbox
\* request; every request of the run carries the token of that attempt, and
\* the token is never acquired again or changed, also not after a request
\* that failed.
C12_SingleToken ==
  /\ [](pc # "auth" => Len(token_result) = 1)
  /\ [](requests # <<>> =>
          /\ token_result = <<"token">>
          /\ access_token # None
          /\ access_token[1] \in Tokens
          /\ \A n \in 1..Len(requests) : requests[n].token = access_token[1])
  /\ [][(access_token # None => access_token' = access_token)
          /\ (Len(token_result) = 1 => token_result' = token_result)]_vars

\* a request that failed was followed by another request with the same token
C12_Witness ==
  /\ Len(requests) >= 2
  /\ responses[1].kind = "exception"
  /\ requests[2].token = requests[1].token
  /\ requests[1].token = access_token[1]
  /\ Len(token_result) = 1

\* request n is a page request that the provider answered with a page
IsPage(n) ==
  /\ requests[n].method = "GET"
  /\ responses[n].kind = "status"
  /\ responses[n].status = StatusOK
\* the messages the read of request n has accumulated with the pages up to n
RECURSIVE Accumulated(_, _)
Accumulated(n, m) ==
  IF m = 0 THEN 0
  ELSE Accumulated(n, m - 1)
         + (IF requests[m].act = requests[n].act /\ IsPage(m)
            THEN Len(responses[m].data.value) ELSE 0)
\* the top of the read that issued request n
TopOf(n) ==
  IF has_input THEN GetD(actions[requests[n].act], "top", DefaultTop) ELSE LegacyTop(cfg)
\* the read that issued request n issued a later request
FollowedBy(n) == \E m \in (n + 1)..Len(requests) : requests[m].act = requests[n].act
\* the number of messages the read that issued request n returned
ReturnedBy(n) ==
  IF has_input
  THEN (IF Len(returned) >= requests[n].act THEN Len(returned[requests[n].act].items) ELSE -1)
  ELSE (IF pc = "done" THEN Len(output[1]) ELSE -1)

\* C13: within one read a further page is requested only after a page that
\* came with a continuation link while the accumulated count was below top;
\* once the count has reached top no further page is requested even if a link
\* came, and a page without link ends the read, which then returns the fewer
\* than top messages accumulated.
C13_FollowLinkWhileBelowTop ==
  \A n \in 1..Len(responses) :
    IsPage(n) =>
      LET acc == Accumulated(n, n)
          link == "nextLink" \in DOMAIN responses[n].data
      IN  /\ FollowedBy(n) => (link /\ acc < TopOf(n))
          /\ (link /\ acc < TopOf(n) /\ ~FollowedBy(n)) => pc = "fetch"
          /\ (acc >= TopOf(n) \/ ~link) => (~FollowedBy(n) /\ ReturnedBy(n) >= 0)
          /\ (acc < TopOf(n) /\ ~link) => ReturnedBy(n) = acc

\* a read with top 1 got one message and a continuation link on its first
\* page and returned without a second request
C13_Witness ==
  /\ has_input
  /\ Len(requests) = 1
  /\ IsPage(1)
  /\ TopOf(1) = 1
  /\ Len(responses[1].data.value) = 1
  /\ "nextLink" \in DOMAIN responses[1].data
  /\ ReturnedBy(1) = 1

\* the filter of the read that issued request n
FilterOf(n) ==
  IF has_input THEN Get(actions[requests[n].act], "filter") ELSE LegacyFilter(cfg)
\* request n is the first request of the read that issued it
FirstOfRead(n) == \A m \in 1..(n - 1) : requests[m].act # requests[n].act

\* C14: the filter, page-size and ordering parameters are sent with the first
\* page request of a read only; every later page request of that read goes
\* to the continuation link with no query parameters, whatever the link is.
C14_ParamsOnFirstPageOnly ==
  \A n \in 1..Len(requests) :
    requests[n].method = "GET" =>
      IF FirstOfRead(n)
      THEN requests[n].params = <<FetchParams(TopOf(n), FilterOf(n))>>
      ELSE /\ requests[n].params = None
           /\ IsPage(n - 1)
           /\ requests[n].url = responses[n - 1].data.nextLink

Terminated == pc \in {"done", "exited"}

\* C15 as stated: with a provider whose every request returns, whatever it
\* returns, every run ends: main writes the output or aborts.
C15_Original == <>Terminated

\* the most steps one read can take after its first request was prepared
ReadSteps == MaxMsgs + MaxEmptyPages + 3
\* the page requests a read in progress can still make
PagesLeft == (mailbox.avail - Len(fetch.messages)) + (MaxEmptyPages - mailbox.empties) + 1
\* an upper bound of the number of steps the run can still take
Rank ==
  CASE pc = "auth" -> (MaxActions + 1) * ReadSteps + 3
    [] pc = "legacy" -> ReadSteps + 2
    [] pc = "loop" -> (n_actions - i + 1) * ReadSteps + 1
    [] pc = "fetch" -> (IF has_input THEN n_actions - i ELSE 0) * ReadSteps + 1 + PagesLeft
    [] OTHER -> 0

\* C15: every run in which each request returns, and in which the provider
\* serves each read finitely many pages that carry a continuation link,
\* ends: main writes the output or aborts.  Every step of such a run lowers
\* a natural number that is zero exactly when the run has ended, and a run
\* that has not ended can take a step.
C15_RunTerminates ==
  /\ [](provider = "paging" => (Rank \in Nat /\ (Rank = 0 <=> Terminated)))
  /\ [][provider = "paging" => Rank' < Rank]_vars
  /\ [](provider = "paging" /\ ~Terminated => ENABLED Next)

\* a run of two actions, the read among them fetching more than one page, has ended
C15_Witness ==
  /\ pc = "done"
  /\ provider = "paging"
  /\ n_actions = 2
  /\ \E n \in 1..Len(requests) : IsPage(n) /\ FollowedBy(n)

\* the provider answered request n with status st
Answered(n, st) == responses[n].kind = "status" /\ responses[n].status = st

\* C16: a move request reports success exactly when the provider's status is
\* 200 or 201, a state-update request exactly when the status is 200; every
\* other status and every transport exception gives success = false.
C16_SuccessStatuses ==
  \A n \in 1..Len(requests) :
    LET res == returned[requests[n].act]
    IN  /\ requests[n].method = "POST" =>
             /\ res.kind = "record"
             /\ res.success <=> (Answered(n, 200) \/ Answered(n, 201))
        /\ requests[n].method = "PATCH" =>
             /\ res.kind = "record"
             /\ res.success <=> Answered(n, 200)

\* a move answered 201 has succeeded and a state update answered 201 has failed
C16_Witness ==
  \E m, n \in 1..Len(requests) :
    /\ requests[m].method = "POST" /\ Answered(m, 201) /\ returned[requests[m].act].success
    /\ requests[n].method = "PATCH" /\ Answered(n, 201) /\ ~returned[requests[n].act].success

\* C17: a state action without mail returns a record with success = false
\* and issues no request, whatever flagged and isRead are; the check of mail
\* comes before the check of the requested fields, so the record names the
\* missing mail also when no field is requested.
C17_StateWithoutMail ==
  \A k \in 1..Len(returned) :
    (IsState(actions[k]) /\ "mail" \notin DOMAIN actions[k]) =>
      /\ returned[k] = Failure("State action requires \"mail\" field")
      /\ \A n \in 1..Len(requests) : requests[n].act # k

\* two state actions without mail have returned, one that requests both
\* fields and one that requests none
C17_Witness ==
  \E j, k \in 1..Len(returned) :
    /\ IsState(actions[j]) /\ DOMAIN actions[j] = {"action", "flagged", "isRead"}
    /\ IsState(actions[k]) /\ DOMAIN actions[k] = {"action"}

\* the folder given to the read that issued request n, None when none is given
FolderOf(n) ==
  IF has_input THEN Get(actions[requests[n].act], "folder") ELSE Get(cfg, "folder")
\* the mailbox's default message collection, and that of a named folder
DefaultCollection == [kind |-> "messages", name |-> "", skip |-> 0]
FolderCollection(name) == [kind |-> "mailFolders", name |-> name, skip |-> 0]

\* C18 as stated: the first page request of a read addresses the default
\* message collection when the folder is absent or is 'inbox' in any letter
\* case, and the named folder's collection for every other folder value.
C18_Original ==
  \A n \in 1..Len(requests) :
    (requests[n].method = "GET" /\ FirstOfRead(n)) =>
      LET folder == FolderOf(n)
      IN  IF folder = None \/ Lower(folder[1]) = "inbox"
          THEN requests[n].url = DefaultCollection
          ELSE requests[n].url = FolderCollection(folder[1])

\* C18: the first page request of a read addresses the default message
\* collection when the folder is absent, is the empty string or is 'inbox'
\* in any letter case, and the named folder's collection for every other
\* folder value.
C18_FolderResolution ==
  \A n \in 1..Len(requests) :
    (requests[n].method = "GET" /\ FirstOfRead(n)) =>
      LET folder == FolderOf(n)
      IN  IF folder = None \/ folder = <<"">> \/ Lower(folder[1]) = "inbox"
          THEN requests[n].url = DefaultCollection
          ELSE requests[n].url = FolderCollection(folder[1])

\* a read of folder 'Inbox' has addressed the default collection
C18_Witness ==
  /\ has_input
  /\ \E n \in 1..Len(requests) :
       /\ requests[n].method = "GET" /\ FirstOfRead(n)
       /\ FolderOf(n) = <<"Inbox">>
       /\ requests[n].url = DefaultCollection

\* request n is a mutation request
IsMutation(n) == requests[n].method \in {"POST", "PATCH"}

\* C19: requests reach the provider in action-list order.  Every request
\* has its response before the next request is issued, a request of an
\* earlier action comes before every request of a later action, no request
\* is issued for an action before the actions in front of it have returned,
\* and so a mutation earlier in the list is answered before a later read
\* fetches its first page.
C19_ActionListOrder ==
  /\ Len(responses) = Len(requests)
  /\ \A m, n \in 1..Len(requests) : m < n => requests[m].act <= requests[n].act
  /\ \A n \in 1..Len(requests) :
       /\ requests[n].act <= i
       /\ requests[n].act < i => (has_input /\ Len(returned) >= requests[n].act)
  /\ \A m, n \in 1..Len(requests) :
       (IsMutation(m) /\ requests[n].method = "GET" /\ requests[m].act < requests[n].act)
         => m < n

\* a move request was answered, and after it the read behind it in the list
\* has fetched two pages
C19_Witness ==
  /\ Len(requests) = 3
  /\ IsMutation(1) /\ requests[1].act = 1
  /\ requests[2].method = "GET" /\ requests[2].act = 2
  /\ requests[3].method = "GET" /\ requests[3].act = 2

\* the mutation requests issued by action k
MutationsOf(k) == {n \in RequestsOf(k) : IsMutation(n)}

\* C20: no mutation is retried or duplicated.  A move action issues at most
\* one move request and a state action at most one update request, also
\* when that request fails; a read or an unknown action issues no mutation
\* request; the mutation requests of a run are no more than the move and
\* state actions of the list.
C20_NoMutationRetried ==
  /\ \A k \in 1..Len(actions) :
       /\ IsMove(actions[k]) =>
            /\ Cardinality(MutationsOf(k)) <= 1
            /\ \A n \in RequestsOf(k) : requests[n].method = "POST"
       /\ IsState(actions[k]) =>
            /\ Cardinality(MutationsOf(k)) <= 1
            /\ \A n \in RequestsOf(k) : requests[n].method = "PATCH"
       /\ (IsRead(actions[k]) \/ IsUnknown(actions[k])) => MutationsOf(k) = {}
  /\ Cardinality({n \in 1..Len(requests) : IsMutation(n)})
       <= Cardinality({k \in 1..Len(actions) : IsMove(actions[k]) \/ IsState(actions[k])})
  /\ ~has_input => \A n \in 1..Len(requests) : ~IsMutation(n)

\* a move whose one request failed has returned, and the action after it too
C20_Witness ==
  /\ Len(returned) = 2
  /\ IsMove(actions[1])
  /\ MutationsOf(1) = {1}
  /\ ~Answered(1, 200) /\ ~Answered(1, 201)
  /\ ~returned[1].success
  /\ RequestsOf(2) \subseteq MutationsOf(2)
====
